---- MODULE Spec2Model ----
(***************************************************************************)
(* Model of viztaz_app.py: the query orchestration (run_search,            *)
(* run_extra_search), the geometry decomposer, the selection aggregator    *)
(* and the viewport handlers of the four map panels.                       *)
(*                                                                         *)
(* Conventions.  A Python str is a sequence of one-character strings.  A   *)
(* Python scalar held in a dataset or in a ColumnDataSource column is a    *)
(* record [k, v, s]: k is its Python type ("int", "nan" for float('nan'),  *)
(* "str", "None"), v its integer value and s its characters.  Polygons     *)
(* are axis-parallel rectangles with integer corners.  Python list         *)
(* indices are 0-based; sequence positions here are 1-based.               *)
(***************************************************************************)
EXTENDS Integers, Sequences, FiniteSets, TLC

-----------------------------------------------------------------------------
(* Python scalars *)

Num(n) == [k |-> "int", v |-> n, s |-> <<>>]

NaN == [k |-> "nan", v |-> 0, s |-> <<>>]

None == [k |-> "None", v |-> 0, s |-> <<>>]

Str(cs) == [k |-> "str", v |-> 0, s |-> cs]

\* isinstance(val, (int, float)): float('nan') is a float.
IsIntOrFloat(val) == val.k \in {"int", "nan"}

\* Python's  a + b  on int/float operands: NaN is absorbing.
PyAdd(a, b) == IF a.k = "nan" \/ b.k = "nan" THEN NaN ELSE Num(a.v + b.v)

-----------------------------------------------------------------------------
(* Python strings *)

Digits == {"0", "1", "2", "3", "4", "5", "6", "7", "8", "9"}

DigitVal == ("0" :> 0) @@ ("1" :> 1) @@ ("2" :> 2) @@ ("3" :> 3) @@ ("4" :> 4)
            @@ ("5" :> 5) @@ ("6" :> 6) @@ ("7" :> 7) @@ ("8" :> 8) @@ ("9" :> 9)

DigitChar == <<"0", "1", "2", "3", "4", "5", "6", "7", "8", "9">>

Whitespace == {" "}

RECURSIVE LStrip(_)
LStrip(cs) == IF cs # <<>> /\ Head(cs) \in Whitespace THEN LStrip(Tail(cs)) ELSE cs

RECURSIVE RStrip(_)
RStrip(cs) ==
    IF cs # <<>> /\ cs[Len(cs)] \in Whitespace
    THEN RStrip(SubSeq(cs, 1, Len(cs) - 1))
    ELSE cs

\* str.strip()
Strip(cs) == RStrip(LStrip(cs))

\* str.split(","): the pieces between the commas, empty pieces included.
RECURSIVE SplitComma(_, _)
SplitComma(cs, cur) ==
    IF cs = <<>> THEN <<cur>>
    ELSE IF Head(cs) = "," THEN <<cur>> \o SplitComma(Tail(cs), <<>>)
    ELSE SplitComma(Tail(cs), Append(cur, Head(cs)))

\* Decimal digits of a natural number.
RECURSIVE NatStr(_)
NatStr(n) == IF n < 10 THEN <<DigitChar[n + 1]>> ELSE Append(NatStr(n \div 10), DigitChar[(n % 10) + 1])

\* str(n) and f"{n}" for an int.
IntStr(n) == IF n < 0 THEN <<"-">> \o NatStr(-n) ELSE NatStr(n)

\* str(val)
PyStr(val) ==
    CASE val.k = "int" -> IntStr(val.v)
      [] val.k = "str" -> val.s
      [] val.k = "nan" -> <<"n", "a", "n">>
      [] OTHER -> <<"N", "o", "n", "e">>

\* f"{x:.1f}" if isinstance(x, (int, float)) else ""
Fmt1(x) ==
    CASE x.k = "int" -> IntStr(x.v) \o <<".", "0">>
      [] x.k = "nan" -> <<"n", "a", "n">>
      [] OTHER -> <<>>

\* Digits with single underscores between them, as int() and float() accept.
DigitGroup(cs) ==
    /\ cs # <<>>
    /\ \A i \in 1..Len(cs) : cs[i] \in Digits \cup {"_"}
    /\ cs[1] \in Digits /\ cs[Len(cs)] \in Digits
    /\ \A i \in 1..(Len(cs) - 1) : ~(cs[i] = "_" /\ cs[i + 1] = "_")

RECURSIVE DigitsValue(_, _)
DigitsValue(cs, acc) ==
    IF cs = <<>> THEN acc
    ELSE IF Head(cs) = "_" THEN DigitsValue(Tail(cs), acc)
    ELSE DigitsValue(Tail(cs), 10 * acc + DigitVal[Head(cs)])

HasSign(cs) == cs # <<>> /\ Head(cs) \in {"+", "-"}

Unsigned(cs) == IF HasSign(cs) THEN Tail(cs) ELSE cs

Signed(cs, n) == IF HasSign(cs) /\ Head(cs) = "-" THEN -n ELSE n

\* int(val) on a str: ok = FALSE stands for ValueError.
ParseInt(cs) ==
    LET t == Strip(cs)
        body == Unsigned(t)
    IN  IF DigitGroup(body)
        THEN [ok |-> TRUE, v |-> Signed(t, DigitsValue(body, 0))]
        ELSE [ok |-> FALSE, v |-> 0]

LowerOf == ("I" :> "i") @@ ("N" :> "n") @@ ("F" :> "f") @@ ("A" :> "a") @@ ("T" :> "t") @@ ("Y" :> "y")

Lower(cs) == [i \in 1..Len(cs) |-> IF cs[i] \in DOMAIN LowerOf THEN LowerOf[cs[i]] ELSE cs[i]]

RECURSIVE Pow10(_)
Pow10(e) == IF e = 0 THEN 1 ELSE 10 * Pow10(e - 1)

\* Position of the first "." of cs, 0 when there is none.
DotAt(cs) == IF \E i \in 1..Len(cs) : cs[i] = "." THEN CHOOSE i \in 1..Len(cs) : cs[i] = "." /\ \A j \in 1..(i - 1) : cs[j] # "." ELSE 0

\* The finite float m / 10^e, with the trailing zeros of m dropped so that
\* equal numbers are equal records.
RECURSIVE Fin(_, _)
Fin(m, e) == IF e > 0 /\ m % 10 = 0 THEN Fin(m \div 10, e - 1) ELSE [k |-> "fin", m |-> m, e |-> e]

\* float(val) on a str.  A float is [k, m, e]: k = "fin" is the number
\* m / 10^e, the other kinds are "nan", "inf" and "-inf"; k = "err" stands
\* for ValueError.  Covers the sign, nan, inf, infinity and decimal
\* notation  digits [. digits]  and  . digits ; the exponent notation is
\* outside the inputs the model draws.
ParseFloat(cs) ==
    LET t == Strip(cs)
        body == Unsigned(t)
        neg == HasSign(t) /\ Head(t) = "-"
        low == Lower(body)
        dot == DotAt(body)
        ip == IF dot = 0 THEN body ELSE SubSeq(body, 1, dot - 1)
        fp == IF dot = 0 THEN <<>> ELSE SubSeq(body, dot + 1, Len(body))
        fdigits == Len(SelectSeq(fp, LAMBDA c : c # "_"))
        mant == DigitsValue(ip, 0) * Pow10(fdigits) + DigitsValue(fp, 0)
    IN  CASE low = <<"n", "a", "n">> -> [k |-> "nan", m |-> 0, e |-> 0]
          [] low \in {<<"i", "n", "f">>, <<"i", "n", "f", "i", "n", "i", "t", "y">>} ->
                [k |-> IF neg THEN "-inf" ELSE "inf", m |-> 0, e |-> 0]
          [] /\ (ip = <<>> \/ DigitGroup(ip))
             /\ (fp = <<>> \/ DigitGroup(fp))
             /\ (ip # <<>> \/ fp # <<>>) ->
                Fin(IF neg THEN -mant ELSE mant, fdigits)
          [] OTHER -> [k |-> "err", m |-> 0, e |-> 0]

-----------------------------------------------------------------------------
(* Geometry.  A polygon is the rectangle [x1, y1, x2, y2]; a geometry is   *)
(* [geom_type, is_empty, geoms] with geoms the constituent polygons (one   *)
(* for a Polygon, none for a null or an empty geometry).  A coordinate     *)
(* that need not be an integer is the fraction [n, d], in lowest terms     *)
(* with d > 0.                                                             *)

Abs(a) == IF a < 0 THEN -a ELSE a

Max(a, b) == IF a >= b THEN a ELSE b

RECURSIVE GCD(_, _)
GCD(a, b) == IF b = 0 THEN Abs(a) ELSE GCD(b, a % b)

Frac(n, d) == LET g == GCD(n, d) IN [n |-> n \div g, d |-> d \div g]

Box(x1, y1, x2, y2) == [x1 |-> x1, y1 |-> y1, x2 |-> x2, y2 |-> y2]

Polygon(p) == [geom_type |-> "Polygon", is_empty |-> FALSE, geoms |-> <<p>>]

MultiPolygon(ps) == [geom_type |-> "MultiPolygon", is_empty |-> FALSE, geoms |-> ps]

EmptyPolygon == [geom_type |-> "Polygon", is_empty |-> TRUE, geoms |-> <<>>]

NoGeometry == [geom_type |-> "None", is_empty |-> TRUE, geoms |-> <<>>]

\* subpoly.exterior.coords.xy: the closed outer ring of the rectangle.
ExteriorXs(p) == <<p.x1, p.x2, p.x2, p.x1, p.x1>>

ExteriorYs(p) == <<p.y1, p.y1, p.y2, p.y2, p.y1>>

\* subpoly.centroid of one polygon.
PolyCentroid(p) == [x |-> Frac(p.x1 + p.x2, 2), y |-> Frac(p.y1 + p.y2, 2)]

Area(p) == (p.x2 - p.x1) * (p.y2 - p.y1)

RECURSIVE SumOver(_, _)
SumOver(f, n) == IF n = 0 THEN 0 ELSE f[n] + SumOver(f, n - 1)

RECURSIVE ConcatAll(_)
ConcatAll(ss) == IF ss = <<>> THEN <<>> ELSE Head(ss) \o ConcatAll(Tail(ss))

\* The polygons of all the geometries of a subset, in row order.
AllPolys(sub) == ConcatAll([i \in 1..Len(sub) |-> sub[i].geometry.geoms])

\* subset.unary_union.centroid: the area-weighted mean of the polygons'
\* centroids (the polygons of one dataset do not overlap).
UnionCentroid(sub) ==
    LET ps == AllPolys(sub)
        a == [i \in 1..Len(ps) |-> Area(ps[i])]
        A == SumOver(a, Len(ps))
    IN  [x |-> Frac(SumOver([i \in 1..Len(ps) |-> a[i] * (ps[i].x1 + ps[i].x2)], Len(ps)), 2 * A),
         y |-> Frac(SumOver([i \in 1..Len(ps) |-> a[i] * (ps[i].y1 + ps[i].y2)], Len(ps)), 2 * A)]

RECURSIVE MinOver(_, _)
MinOver(f, n) == IF n = 1 THEN f[1] ELSE LET m == MinOver(f, n - 1) IN IF f[n] < m THEN f[n] ELSE m

RECURSIVE MaxOver(_, _)
MaxOver(f, n) == IF n = 1 THEN f[1] ELSE Max(f[n], MaxOver(f, n - 1))

\* The bounds of the first polygon of the subset alone.
TotalBounds_first_polygon(sub) ==
    LET ps == AllPolys(sub)
    IN  <<ps[1].x1, ps[1].y1, ps[1].x2, ps[1].y2>>

\* subset.total_bounds: (minx, miny, maxx, maxy) over a non-empty subset.
TotalBounds(sub) ==
    LET ps == AllPolys(sub)
        n == Len(ps)
    IN  <<MinOver([i \in 1..n |-> ps[i].x1], n), MinOver([i \in 1..n |-> ps[i].y1], n),
          MaxOver([i \in 1..n |-> ps[i].x2], n), MaxOver([i \in 1..n |-> ps[i].y2], n)>>

\* centroid.buffer(radius) for a finite positive radius: the disc of that
\* radius about the centroid (shapely's 64-gon is taken for its circle).
\* "empty" is the empty polygon.
Disc(c, r) == [kind |-> "disc", c |-> c, r |-> r]

EmptyBuffer(c, r) == [kind |-> "empty", c |-> c, r |-> r]

\* polygon.intersects(buffer_geom): the distance from the disc's centre to
\* the rectangle is at most the radius.  With the centre (nx/dx, ny/dy)
\* and the radius m / 10^e, everything is scaled by dx * dy * 10^e.
PolyIntersects(p, b) ==
    LET cx == b.c.x
        cy == b.c.y
        s == Pow10(b.r.e)
        gx == Max(Max(p.x1 * cx.d - cx.n, cx.n - p.x2 * cx.d), 0) * cy.d * s
        gy == Max(Max(p.y1 * cy.d - cy.n, cy.n - p.y2 * cy.d), 0) * cx.d * s
        R == b.r.m * cx.d * cy.d
    IN  /\ b.kind = "disc"
        /\ gx <= R
        /\ gy <= R
        /\ gx * gx + gy * gy <= R * R

\* geometry.intersects(buffer_geom)
Intersects(g, b) == \E i \in 1..Len(g.geoms) : PolyIntersects(g.geoms[i], b)

-----------------------------------------------------------------------------
(* The base datasets, as the loader leaves them (lines 53-104): a dataset  *)
(* is a sequence of rows [geometry, fields], fields mapping each column    *)
(* of the dataset to the row's value.  remove_zero_geoms has dropped the   *)
(* rows without a geometry.                                                *)

NumericCols == <<"HH19", "PERSNS19", "WORKRS19", "EMP19", "HH49", "PERSNS49", "WORKRS49", "EMP49">>

ColSet(cols) == {cols[i] : i \in 1..Len(cols)}

\* A row's fields: an id column and values for the listed columns.
Fields(id_field, id, cols, vals) ==
    [c \in {id_field} \cup ColSet(cols) |->
        IF c = id_field THEN id ELSE vals[CHOOSE i \in 1..Len(cols) : cols[i] = c]]

Row(g, f) == [geometry |-> g, fields |-> f]

Ints(ns) == [i \in 1..Len(ns) |-> Num(ns[i])]

gdf_old_taz ==
    << Row(Polygon(Box(0, 0, 100, 200)), Fields("taz_id", Num(42), <<>>, <<>>)),
       Row(MultiPolygon(<<Box(2000, 0, 2100, 100), Box(4000, 0, 4100, 100)>>),
           Fields("taz_id", Num(7), <<>>, <<>>)),
       Row(Polygon(Box(200, 0, 400, 200)), Fields("taz_id", Num(43), <<>>, <<>>)) >>

\* The new-zone shapefile has no EMP49 column; zone 102 has a null HH19,
\* which a float column holds as NaN.
NewCols == <<"HH19", "PERSNS19", "WORKRS19", "EMP19", "HH49", "PERSNS49", "WORKRS49">>

gdf_new_taz ==
    << Row(Polygon(Box(0, 0, 200, 200)),
           Fields("taz_id", Num(101), NewCols, Ints(<<10, 25, 12, 5, 20, 40, 18>>))),
       Row(Polygon(Box(600, 0, 800, 200)),
           Fields("taz_id", Num(102), NewCols, <<NaN>> \o Ints(<<7, 3, 2, 4, 9, 5>>))),
       Row(Polygon(Box(3000, 0, 3100, 100)),
           Fields("taz_id", Num(103), NewCols, Ints(<<1, 2, 3, 4, 5, 6, 7>>))) >>

\* Block b1 carries a text where a number is expected and a null EMP19;
\* block b3 has two parts.
gdf_blocks ==
    << Row(Polygon(Box(40, 90, 60, 110)),
           Fields("BLOCK_ID", Str(<<"b", "1">>), NumericCols,
                  Ints(<<4>>) \o <<Str(<<"n", "/", "a">>)>> \o Ints(<<5>>) \o <<NaN>> \o Ints(<<6, 12, 7, 2>>))),
       Row(MultiPolygon(<<Box(3040, 40, 3060, 60), Box(3200, 0, 3210, 10)>>),
           Fields("BLOCK_ID", Str(<<"b", "3">>), NumericCols, Ints(<<2, 4, 1, 3, 2, 5, 2, 4>>))) >>

-----------------------------------------------------------------------------
(* Helper functions (section 2 of the source).  The data of a              *)
(* ColumnDataSource is a function from its column names to sequences of    *)
(* equal length.                                                           *)

\* row[c] once  gdf[c] = None  has added the columns of ensure_cols that
\* the dataset lacks (lines 112-114).
RowValue(row, c) == IF c \in DOMAIN row.fields THEN row.fields[c] ELSE None

\* Lines 120-140 with a MultiPolygon contributing its first constituent
\* only.
RowPolys_first_part(row) ==
    LET geom == row.geometry
    IN  IF geom.geom_type = "None" \/ geom.is_empty THEN <<>>
        ELSE <<geom.geoms[1]>>

\* The polygons one row contributes (lines 120-140): none for a null or
\* empty geometry, and none for a geometry that is neither a Polygon nor a
\* MultiPolygon.
RowPolys(row) ==
    LET geom == row.geometry
    IN  IF geom.geom_type = "None" \/ geom.is_empty THEN <<>>
        ELSE IF geom.geom_type = "MultiPolygon" THEN geom.geoms
        ELSE IF geom.geom_type = "Polygon" THEN <<geom.geoms[1]>>
        ELSE <<>>

\* The rings of a collection, [row, poly], in row order and then in
\* constituent order: the order of the appends of lines 119-140.
RingsOf(gdf) ==
    ConcatAll([i \in 1..Len(gdf) |->
        LET ps == RowPolys(gdf[i]) IN [j \in 1..Len(ps) |-> [row |-> gdf[i], poly |-> ps[j]]]])

split_multipolygons_to_cds(gdf, id_field, ensure_cols) ==
    LET rings == RingsOf(gdf)
    IN  [c \in {"xs", "ys", "id"} \cup ColSet(ensure_cols) |->
            [i \in 1..Len(rings) |->
                CASE c = "xs" -> ExteriorXs(rings[i].poly)
                  [] c = "ys" -> ExteriorYs(rings[i].poly)
                  [] c = "id" -> PyStr(rings[i].row.fields[id_field])
                  [] OTHER -> RowValue(rings[i].row, c)]]

split_multipolygons_to_text(gdf, id_field) ==
    LET rings == RingsOf(gdf)
    IN  [c \in {"cx", "cy", "id"} |->
            [i \in 1..Len(rings) |->
                CASE c = "cx" -> PolyCentroid(rings[i].poly).x
                  [] c = "cy" -> PolyCentroid(rings[i].poly).y
                  [] OTHER -> PyStr(rings[i].row.fields[id_field])]]

\* The sum of the int and float values of a column, from 0 (lines 176-180).
RECURSIVE ColumnSum(_)
ColumnSum(vals) ==
    IF vals = <<>> THEN Num(0)
    ELSE LET rest == ColumnSum(SubSeq(vals, 1, Len(vals) - 1))
             val == vals[Len(vals)]
         IN  IF IsIntOrFloat(val) THEN PyAdd(rest, val) ELSE rest

SumId == <<"S", "u", "m">>

add_sum_row(d, colnames) ==
    LET d0 == IF "id" \in DOMAIN d THEN d
              ELSE [c \in DOMAIN d \cup {"id"} \cup ColSet(colnames) |->
                        IF c = "id" \/ c \in ColSet(colnames) THEN <<>> ELSE d[c]]
    IN  [c \in DOMAIN d0 |->
            IF c = "id" THEN Append(d0[c], SumId)
            ELSE IF c \in ColSet(colnames) THEN Append(d0[c], ColumnSum(d0[c]))
            ELSE d0[c]]

FmtName == ("HH19" :> "HH19_fmt") @@ ("EMP19" :> "EMP19_fmt") @@ ("HH49" :> "HH49_fmt") @@ ("EMP49" :> "EMP49_fmt")

\* source.data after add_formatted_fields(source, fields).
add_formatted_fields(data, fields) ==
    LET present == {f \in ColSet(fields) : f \in DOMAIN data}
    IN  [c \in DOMAIN data \cup {FmtName[f] : f \in present} |->
            IF \E f \in present : FmtName[f] = c
            THEN LET f == CHOOSE f \in present : FmtName[f] = c
                 IN  [i \in 1..Len(data[f]) |-> Fmt1(data[f][i])]
            ELSE data[c]]

-----------------------------------------------------------------------------
(* State (sections 3, 4 and 6 of the source).  Each *_source is the data   *)
(* of that ColumnDataSource; *_selected is source.selected.indices;        *)
(* ranges[p] is the x_range and y_range of plot p; search_label is the     *)
(* text the status label shows in red.  radius and total_bounds are the    *)
(* locals of run_search of those names, as the last run that reached       *)
(* lines 487 and 537 left them (<<>> before).  text_input and              *)
(* extra_taz_input are the values of those widgets; the text of the radius *)
(* input is an input of the event that runs run_search.  pc is the line of *)
(* run_search that runs next, Idle when no run is in progress; locals      *)
(* holds the locals old_id_int, radius, subset_old, buffer_geom,           *)
(* neighbors, new_sub and blocks_sub of the run in progress, each <<>>     *)
(* while unbound and <<value>> once assigned.                              *)

VARIABLES text_input, extra_taz_input, search_label, centroid_source, old_taz_buffer_source, old_taz_neighbors_source,
          old_taz_source, old_taz_blocks_source, new_taz_source, new_taz_blocks_source,
          blocks_source, combined_old_source, combined_new_source, combined_blocks_source,
          old_taz_text_source, new_taz_text_source,
          extra_old_taz_source, extra_old_taz_text_source,
          new_taz_selected, blocks_selected, new_taz_table_source, blocks_table_source,
          ranges, radius, total_bounds,
          pc, locals

ring_tables == <<old_taz_buffer_source, old_taz_neighbors_source, old_taz_source,
                 old_taz_blocks_source, new_taz_source, new_taz_blocks_source, blocks_source,
                 combined_old_source, combined_new_source, combined_blocks_source>>

label_tables == <<old_taz_text_source, new_taz_text_source>>

overlay == <<extra_old_taz_source, extra_old_taz_text_source>>

selections == <<new_taz_selected, blocks_selected>>

attribute_tables == <<new_taz_table_source, blocks_table_source>>

run_locals == <<pc, locals>>

query_locals == <<radius, total_bounds, run_locals>>

inputs == <<text_input, extra_taz_input>>

vars == <<inputs, search_label, centroid_source, ring_tables, label_tables, overlay, selections,
          attribute_tables, ranges, query_locals>>

Plots == {"p_old", "p_new", "p_combined", "p_blocks"}

\* ColumnDataSource(dict(c=[], ...)) over the columns cols.
EmptySource(cols) == [c \in cols |-> <<>>]

RingCols == {"xs", "ys", "id"}

TextCols == {"cx", "cy", "id"}

TableCols == {"id"} \cup ColSet(NumericCols)

\* A range end the user and the handlers have not set (a fresh figure).
Auto == [n |-> 0, d |-> 0]

Idle == 0

\* No local of run_search is bound.
Unbound == [old_id_int |-> <<>>, radius |-> <<>>, subset_old |-> <<>>, buffer_geom |-> <<>>,
            neighbors |-> <<>>, new_sub |-> <<>>, blocks_sub |-> <<>>]

InitialRange == [x_start |-> Auto, x_end |-> Auto, y_start |-> Auto, y_end |-> Auto]

LabelNone == <<"(", "n", "o", "n", "e", ")">>

LabelNoInput == <<"(", "n", "o", " ", "i", "n", "p", "u", "t", ")">>

LabelNotFound == <<"[", "T", "A", "Z", " ", "N", "o", "t", " ", "F", "o", "u", "n", "d", "]">>

Init ==
    /\ text_input = <<>>
    /\ extra_taz_input = <<>>
    /\ search_label = LabelNone
    /\ centroid_source = EmptySource({"cx", "cy"})
    /\ old_taz_buffer_source = EmptySource(RingCols)
    /\ old_taz_neighbors_source = EmptySource(RingCols)
    /\ old_taz_source = EmptySource(RingCols)
    /\ old_taz_blocks_source = EmptySource(RingCols)
    /\ new_taz_source = EmptySource(RingCols \cup ColSet(NumericCols))
    /\ new_taz_blocks_source = EmptySource(RingCols)
    /\ blocks_source = EmptySource(RingCols \cup ColSet(NumericCols))
    /\ combined_old_source = EmptySource(RingCols)
    /\ combined_new_source = EmptySource(RingCols \cup ColSet(NumericCols))
    /\ combined_blocks_source = EmptySource(RingCols)
    /\ old_taz_text_source = EmptySource(TextCols)
    /\ new_taz_text_source = EmptySource(TextCols)
    /\ extra_old_taz_source = EmptySource(RingCols)
    /\ extra_old_taz_text_source = EmptySource(TextCols)
    /\ new_taz_selected = <<>>
    /\ blocks_selected = <<>>
    /\ new_taz_table_source = EmptySource(TableCols)
    /\ blocks_table_source = EmptySource(TableCols)
    /\ ranges = [p \in Plots |-> InitialRange]
    /\ radius = <<>>
    /\ total_bounds = <<>>
    /\ pc = Idle
    /\ locals = Unbound

-----------------------------------------------------------------------------
(* Section 6: the attribute tables *)

\* The data update_new_taz_table() assigns to new_taz_table_source, from
\* the data of new_taz_source and its selected indices.
update_new_taz_table(data, inds) ==
    LET d == [c \in TableCols |->
                 IF inds # <<>> /\ c \in DOMAIN data
                 THEN [k \in 1..Len(inds) |-> data[c][inds[k] + 1]]
                 ELSE <<>>]
    IN  add_sum_row(d, NumericCols)

\* update_blocks_table() returning before add_sum_row() when nothing is
\* selected.
update_blocks_table_early_return(data, inds) ==
    LET d == [c \in TableCols |->
                 IF inds # <<>>
                 THEN [k \in 1..Len(inds) |-> data[c][inds[k] + 1]]
                 ELSE <<>>]
    IN  IF inds = <<>> THEN d ELSE add_sum_row(d, NumericCols)

\* The data update_blocks_table() assigns to blocks_table_source.
update_blocks_table(data, inds) ==
    LET d == [c \in TableCols |->
                 IF inds # <<>>
                 THEN [k \in 1..Len(inds) |-> data[c][inds[k] + 1]]
                 ELSE <<>>]
    IN  add_sum_row(d, NumericCols)

\* The lists of distinct row indices of a source with n rows: what tapping
\* its glyphs can select, in the order of the taps.
Selections(n) ==
    {s \in UNION {[1..k -> 0..(n - 1)] : k \in 0..n} :
        \A i, j \in 1..Len(s) : i # j => s[i] # s[j]}

\* new_taz_source.selected.indices changes to inds: the on_change callback
\* of line 391 runs update_new_taz_table().
SelectNewTaz(inds) ==
    /\ inds # new_taz_selected
    /\ new_taz_selected' = inds
    /\ new_taz_table_source' = update_new_taz_table(new_taz_source, inds)
    /\ UNCHANGED <<inputs, search_label, centroid_source, ring_tables, label_tables, overlay,
                   blocks_selected, blocks_table_source, ranges, query_locals>>

\* blocks_source.selected.indices changes to inds (line 392).
SelectBlocks(inds) ==
    /\ inds # blocks_selected
    /\ blocks_selected' = inds
    /\ blocks_table_source' = update_blocks_table(blocks_source, inds)
    /\ UNCHANGED <<inputs, search_label, centroid_source, ring_tables, label_tables, overlay,
                   new_taz_selected, new_taz_table_source, ranges, query_locals>>

-----------------------------------------------------------------------------
(* Section 8: the main search *)

DefaultRadius == 1000

Margin == 1000

\* radius <= 0 on a float: False for NaN and for +inf.
LeqZero(f) == f.k = "-inf" \/ (f.k = "fin" /\ f.m <= 0)

\* The radius of lines 468-474, from the text of the radius input.
parse_radius(radius_value) ==
    LET f == ParseFloat(Strip(radius_value))
    IN  IF f.k = "err" THEN Fin(DefaultRadius, 0)
        ELSE IF LeqZero(f) THEN Fin(DefaultRadius, 0)
        ELSE f

\* What centroid.buffer(radius) of line 487 can do.  For a finite radius
\* it returns the disc.  For NaN and for inf the outcome depends on the
\* shapely build: ValueError ("raise": run_search ends there, in the
\* middle), or a polygon without points.
BufferOutcomes(c, r) ==
    IF r.k = "fin" THEN {Disc(c, r)} ELSE {[kind |-> "raise", c |-> c, r |-> r], EmptyBuffer(c, r)}

\* fit() taking the margin only when both spans are zero.
fit_both_spans(bounds) ==
    LET minx == bounds[1]
        miny == bounds[2]
        maxx == bounds[3]
        maxy == bounds[4]
        dx == maxx - minx
        dy == maxy - miny
    IN  IF minx = maxx /\ miny = maxy
        THEN [x_start |-> Frac(minx - Margin, 1), x_end |-> Frac(maxx + Margin, 1),
              y_start |-> Frac(miny - Margin, 1), y_end |-> Frac(maxy + Margin, 1)]
        ELSE [x_start |-> Frac(20 * minx - dx, 20), x_end |-> Frac(20 * maxx + dx, 20),
              y_start |-> Frac(20 * miny - dy, 20), y_end |-> Frac(20 * maxy + dy, 20)]

\* The viewport of lines 537-542 for the bounds (minx, miny, maxx, maxy).
\* 0.05 * dx is dx / 20: the padded ends are fractions over 20.
fit(bounds) ==
    LET minx == bounds[1]
        miny == bounds[2]
        maxx == bounds[3]
        maxy == bounds[4]
        dx == maxx - minx
        dy == maxy - miny
    IN  IF minx = maxx \/ miny = maxy
        THEN [x_start |-> Frac(minx - Margin, 1), x_end |-> Frac(maxx + Margin, 1),
              y_start |-> Frac(miny - Margin, 1), y_end |-> Frac(maxy + Margin, 1)]
        ELSE [x_start |-> Frac(20 * minx - dx, 20), x_end |-> Frac(20 * maxx + dx, 20),
              y_start |-> Frac(20 * miny - dy, 20), y_end |-> Frac(20 * maxy + dy, 20)]

\* calibrate_plots (lines 640-645) assigns every range end to itself.
calibrate_plots(rs) == [p \in Plots |-> rs[p]]

\* taz_id == old_id_int
IdIs(row, n) == row.fields["taz_id"].k = "int" /\ row.fields["taz_id"].v = n

\* The texts the events deliver: of the id input, of the radius input and
\* of the extra-id input.
IdInputs ==
    { <<>>, <<"a", "b", "c">>, <<"4", "2">>, <<" ", "7", " ">>, <<"5", "0", "0">> }

RadiusInputs ==
    { <<"1", "0", "0", "0">>, <<"6", "0">>, <<"a", "b", "c">>, <<"0">>, <<"-", "5">>, <<"n", "a", "n">> }

ExtraInputs ==
    { <<>>, <<"4", "2", ",", " ", "7">>, <<"4", "2", ",", ",", "7">>,
      <<"4", "2", ",", " ", "7", ",", " ", "a", "b", "c">>, <<"5", "0", "0">> }

\* f itself: f @@ <<>> makes TLC tabulate the function once.
Table(f) == f @@ <<>>

\* The locals of run_search() up to line 485 for text_input.value = value
\* and radius_input.value = radius_value.
search_locals(value, radius_value) ==
    LET val == Strip(value)
        old_id == ParseInt(val)
        subset_old == IF old_id.ok THEN SelectSeq(gdf_old_taz, LAMBDA row : IdIs(row, old_id.v)) ELSE <<>>
    IN  [val |-> val, parsed |-> old_id.ok, old_id_int |-> old_id.v,
         radius |-> parse_radius(radius_value), subset_old |-> subset_old,
         centroid |-> IF subset_old = <<>> THEN [x |-> Auto, y |-> Auto] ELSE UnionCentroid(subset_old)]

\* What lines 487-552 assign for the anchor subset_old and the buffer
\* buffer_geom: the data of every source, the table data of lines 534-535
\* and the bounds and view of lines 537-542.
search_writes(old_id_int, subset_old, buffer_geom) ==
    LET neighbors == SelectSeq(gdf_old_taz, LAMBDA row : Intersects(row.geometry, buffer_geom))
        new_sub == SelectSeq(gdf_new_taz, LAMBDA row : Intersects(row.geometry, buffer_geom))
        blocks_sub == SelectSeq(gdf_blocks, LAMBDA row : Intersects(row.geometry, buffer_geom))
        new_temp == add_formatted_fields(split_multipolygons_to_cds(new_sub, "taz_id", NumericCols),
                                         <<"HH19", "EMP19", "HH49", "EMP49">>)
        blocks_temp == add_formatted_fields(split_multipolygons_to_cds(blocks_sub, "BLOCK_ID", NumericCols),
                                            <<"HH19", "EMP19", "HH49", "EMP49">>)
    IN  [kind |-> buffer_geom.kind,
         old_taz_buffer_source |-> [xs |-> <<[axis |-> "x", ring |-> buffer_geom]>>,
                                    ys |-> <<[axis |-> "y", ring |-> buffer_geom]>>,
                                    id |-> <<IntStr(old_id_int)>>],
         old_taz_neighbors_source |-> split_multipolygons_to_cds(neighbors, "taz_id", <<>>),
         old_temp |-> split_multipolygons_to_cds(subset_old, "taz_id", <<>>),
         new_temp |-> new_temp,
         blocks_temp |-> blocks_temp,
         old_blocks_temp |-> split_multipolygons_to_cds(blocks_sub, "BLOCK_ID", <<>>),
         new_blocks_temp |-> split_multipolygons_to_cds(blocks_sub, "BLOCK_ID", <<>>),
         comb_blocks_temp |-> split_multipolygons_to_cds(blocks_sub, "BLOCK_ID", <<>>),
         old_taz_text_source |-> split_multipolygons_to_text(subset_old, "taz_id"),
         new_taz_text_source |-> split_multipolygons_to_text(new_sub, "taz_id"),
         new_taz_table_source |-> update_new_taz_table(new_temp, <<>>),
         blocks_table_source |-> update_blocks_table(blocks_temp, <<>>),
         total_bounds |-> TotalBounds(subset_old),
         view |-> fit(TotalBounds(subset_old))]

\* An early return that clears the selections before it reports.
rejected_clearing_selections(label) ==
    /\ search_label' = label
    /\ new_taz_selected' = <<>>
    /\ blocks_selected' = <<>>
    /\ UNCHANGED <<extra_taz_input, centroid_source, ring_tables, label_tables, overlay,
                   attribute_tables, ranges, query_locals>>

\* The early return of lines 460-462, 465-467 and 477-479: the status
\* label alone is written.
rejected(label) ==
    /\ search_label' = label
    /\ UNCHANGED <<extra_taz_input, centroid_source, ring_tables, label_tables, overlay,
                   selections, attribute_tables, ranges, query_locals>>

\* Lines 481-485, which every run past the early returns executes.
search_started(l) ==
    /\ search_label' = IntStr(l.old_id_int)
    /\ centroid_source' = [cx |-> <<l.centroid.x>>, cy |-> <<l.centroid.y>>]
    /\ radius' = <<l.radius>>
    /\ UNCHANGED run_locals

\* centroid.buffer(radius) raises at line 487: the run ends there.
search_raised(l) ==
    /\ search_started(l)
    /\ UNCHANGED <<extra_taz_input, ring_tables, label_tables, overlay, selections,
                   attribute_tables, ranges, total_bounds>>

\* Lines 487-554 with the writes w.  Clearing a non-empty selection at
\* lines 530-531 runs the table callbacks on the new data with no index
\* selected; lines 532-535 then write the same tables.
search_done(l, w) ==
    /\ search_started(l)
    /\ old_taz_buffer_source' = w.old_taz_buffer_source
    /\ old_taz_neighbors_source' = w.old_taz_neighbors_source
    /\ old_taz_source' = w.old_temp
    /\ new_taz_source' = w.new_temp
    /\ blocks_source' = w.blocks_temp
    /\ old_taz_blocks_source' = w.old_blocks_temp
    /\ new_taz_blocks_source' = w.new_blocks_temp
    /\ combined_old_source' = w.old_temp
    /\ combined_new_source' = w.new_temp
    /\ combined_blocks_source' = w.comb_blocks_temp
    /\ old_taz_text_source' = w.old_taz_text_source
    /\ new_taz_text_source' = w.new_taz_text_source
    /\ new_taz_selected' = <<>>
    /\ blocks_selected' = <<>>
    /\ new_taz_table_source' = w.new_taz_table_source
    /\ blocks_table_source' = w.blocks_table_source
    /\ total_bounds' = w.total_bounds
    /\ ranges' = calibrate_plots([p \in Plots |-> w.view])
    /\ UNCHANGED <<extra_taz_input, overlay>>

\* search_locals and search_writes over the inputs of the events.
SearchLocals == Table([in \in IdInputs \X RadiusInputs |-> search_locals(in[1], in[2])])

SearchWrites ==
    Table([in \in IdInputs \X RadiusInputs |->
        LET l == search_locals(in[1], in[2])
        IN  IF l.subset_old = <<>> THEN <<>>
            ELSE Table([b \in BufferOutcomes(l.centroid, l.radius) |->
                            search_writes(l.old_id_int, l.subset_old, b)])])

\* run_search() with text_input.value = value and radius_input.value =
\* radius_value (on_search_click, the change of text_input and the Apply
\* Radius button all run it, lines 556-561).
run_search(value, radius_value) ==
    LET l == SearchLocals[<<value, radius_value>>]
    IN  /\ text_input' = value
        /\ \/ /\ l.val = <<>>
              /\ rejected(LabelNoInput)
           \/ /\ l.val # <<>>
              /\ ~l.parsed \/ l.subset_old = <<>>
              /\ rejected(LabelNotFound)
           \/ /\ l.val # <<>> /\ l.parsed /\ l.subset_old # <<>>
              /\ \E buffer_geom \in BufferOutcomes(l.centroid, l.radius) :
                    \/ /\ buffer_geom.kind = "raise"
                       /\ search_raised(l)
                    \/ /\ buffer_geom.kind # "raise"
                       /\ search_done(l, SearchWrites[<<value, radius_value>>][buffer_geom])

-----------------------------------------------------------------------------
(* Viewports: pan and zoom, Match 1st Panel Zoom, Reset Views *)

Whole(n) == [n |-> n, d |-> 1]

\* The views a pan or zoom of the user leaves a plot in.
PanViews == {[x_start |-> Whole(10), x_end |-> Whole(50), y_start |-> Whole(20), y_end |-> Whole(40)]}

\* The plots the user pans or zooms: the source of Match 1st Panel Zoom and
\* one of its targets.
PanPlots == {"p_old", "p_new"}

\* The user pans or zooms plot p: the browser sets that plot's ranges.
PanZoom(p, view) ==
    /\ ranges[p] # view
    /\ ranges' = [ranges EXCEPT ![p] = view]
    /\ UNCHANGED <<inputs, search_label, centroid_source, ring_tables, label_tables, overlay,
                   selections, attribute_tables, query_locals>>

\* on_match_zoom_click without the block panel among its targets.
match_zoom_two_targets(rs) ==
    [p \in Plots |-> IF p \in {"p_new", "p_combined"} THEN rs["p_old"] ELSE rs[p]]

\* The ranges on_match_zoom_click leaves (lines 577-582).
match_zoom(rs) ==
    [p \in Plots |-> IF p \in {"p_new", "p_combined", "p_blocks"} THEN rs["p_old"] ELSE rs[p]]

on_match_zoom_click ==
    /\ ranges' = match_zoom(ranges)
    /\ UNCHANGED <<inputs, search_label, centroid_source, ring_tables, label_tables, overlay,
                   selections, attribute_tables, query_locals>>

\* reset_views (lines 448-450): every plot's reset event restores the
\* ranges the plot started with.
reset_views ==
    /\ ranges' = [p \in Plots |-> InitialRange]
    /\ UNCHANGED <<inputs, search_label, centroid_source, ring_tables, label_tables, overlay,
                   selections, attribute_tables, query_locals>>

-----------------------------------------------------------------------------
(* The extra search *)

\* The overlay tables of lines 589-590, 595-596 and 600-601.
cleared_extra == <<EmptySource(RingCols), EmptySource(TextCols)>>

\* run_extra_search() skipping the pieces that are no integers instead of
\* clearing the overlay.
extra_search_skipping(value) ==
    LET val == Strip(value)
        pieces == SelectSeq(SplitComma(val, <<>>), LAMBDA x : Strip(x) # <<>>)
        parsed == [i \in 1..Len(pieces) |-> ParseInt(Strip(pieces[i]))]
        id_list == {parsed[i].v : i \in {j \in 1..Len(pieces) : parsed[j].ok}}
        subset_extra == SelectSeq(gdf_old_taz,
                               LAMBDA row : row.fields["taz_id"].k = "int" /\ row.fields["taz_id"].v \in id_list)
    IN  IF val = <<>> THEN <<EmptySource(RingCols), EmptySource(TextCols)>>
        ELSE IF subset_extra = <<>> THEN <<EmptySource(RingCols), EmptySource(TextCols)>>
        ELSE <<split_multipolygons_to_cds(subset_extra, "taz_id", <<>>),
               split_multipolygons_to_text(subset_extra, "taz_id")>>

\* run_extra_search() keeping the ids that precede the first piece that is
\* no integer.
extra_search_prefix(value) ==
    LET val == Strip(value)
        pieces == SelectSeq(SplitComma(val, <<>>), LAMBDA x : Strip(x) # <<>>)
        parsed == [i \in 1..Len(pieces) |-> ParseInt(Strip(pieces[i]))]
        id_list == {parsed[i].v : i \in {j \in 1..Len(pieces) : \A k \in 1..j : parsed[k].ok}}
        subset_extra == SelectSeq(gdf_old_taz,
                                  LAMBDA row : row.fields["taz_id"].k = "int" /\ row.fields["taz_id"].v \in id_list)
    IN  IF val = <<>> THEN <<EmptySource(RingCols), EmptySource(TextCols)>>
        ELSE IF subset_extra = <<>> THEN <<EmptySource(RingCols), EmptySource(TextCols)>>
        ELSE <<split_multipolygons_to_cds(subset_extra, "taz_id", <<>>),
               split_multipolygons_to_text(subset_extra, "taz_id")>>

\* The overlay tables run_extra_search() leaves for extra_taz_input.value
\* = value.
extra_search(value) ==
    LET val == Strip(value)
        pieces == SelectSeq(SplitComma(val, <<>>), LAMBDA x : Strip(x) # <<>>)
        parsed == [i \in 1..Len(pieces) |-> ParseInt(Strip(pieces[i]))]
        id_list == {parsed[i].v : i \in 1..Len(pieces)}
        subset_extra == SelectSeq(gdf_old_taz,
                               LAMBDA row : row.fields["taz_id"].k = "int" /\ row.fields["taz_id"].v \in id_list)
    IN  IF val = <<>> THEN cleared_extra
        ELSE IF \E i \in 1..Len(pieces) : ~parsed[i].ok THEN cleared_extra
        ELSE IF subset_extra = <<>> THEN cleared_extra
        ELSE <<split_multipolygons_to_cds(subset_extra, "taz_id", <<>>),
               split_multipolygons_to_text(subset_extra, "taz_id")>>

ExtraSearch == Table([value \in ExtraInputs |-> extra_search(value)])

\* run_extra_search() that also restores the initial ranges of the plots.
run_extra_search_resetting_views(value) ==
    /\ extra_taz_input' = value
    /\ extra_old_taz_source' = ExtraSearch[value][1]
    /\ extra_old_taz_text_source' = ExtraSearch[value][2]
    /\ ranges' = [p \in Plots |-> InitialRange]
    /\ UNCHANGED <<text_input, search_label, centroid_source, ring_tables, label_tables, selections,
                   attribute_tables, query_locals>>

\* run_extra_search() (the button, the change of the input and its submit
\* all run it, lines 608-610).
run_extra_search(value) ==
    /\ extra_taz_input' = value
    /\ extra_old_taz_source' = ExtraSearch[value][1]
    /\ extra_old_taz_text_source' = ExtraSearch[value][2]
    /\ UNCHANGED <<text_input, search_label, centroid_source, ring_tables, label_tables, selections,
                   attribute_tables, ranges, query_locals>>

-----------------------------------------------------------------------------
(* The events *)

Next ==
    \/ \E value \in IdInputs, radius_value \in RadiusInputs : run_search(value, radius_value)
    \/ \E value \in ExtraInputs : run_extra_search(value)
    \/ \E inds \in Selections(Len(new_taz_source["id"])) : SelectNewTaz(inds)
    \/ \E inds \in Selections(Len(blocks_source["id"])) : SelectBlocks(inds)
    \/ \E p \in PanPlots, view \in PanViews : PanZoom(p, view)
    \/ on_match_zoom_click
    \/ reset_views

Spec == Init /\ [][Next]_vars

-----------------------------------------------------------------------------
(* The viewport fit of lines 537-552 over a range of bounds *)

MaxCoord == 2

\* The coordinates of the bounds drawn: 0..MaxCoord and the corners of the
\* box (0, 0) - (100, 200).
FitCoords == 0..MaxCoord \cup {100, 200}

\* total_bounds of a non-empty frame: minx <= maxx and miny <= maxy.
FitBounds ==
    {b \in FitCoords \X FitCoords \X FitCoords \X FitCoords : b[1] <= b[3] /\ b[2] <= b[4]}

\* Lines 537-554 of a run for which subset_old.total_bounds is bounds.
fit_viewports(bounds) ==
    /\ total_bounds' = bounds
    /\ ranges' = calibrate_plots([p \in Plots |-> fit(bounds)])
    /\ UNCHANGED <<inputs, search_label, centroid_source, ring_tables, label_tables, overlay,
                   selections, attribute_tables, radius, run_locals>>

FitNext == \E bounds \in FitBounds : fit_viewports(bounds)

FitSpec == Init /\ [][FitNext]_vars

-----------------------------------------------------------------------------
(* run_search() statement by statement.  No other handler runs while a    *)
(* run is in progress: the server runs one callback at a time.            *)

\* Lines 459-474: the id and the radius are parsed.
validate(value, radius_value) ==
    LET val == Strip(value)
        old_id == ParseInt(val)
    IN  /\ pc = Idle
        /\ text_input' = value
        /\ IF val = <<>>
           THEN /\ search_label' = LabelNoInput
                /\ UNCHANGED <<pc, locals>>
           ELSE IF ~old_id.ok
           THEN /\ search_label' = LabelNotFound
                /\ UNCHANGED <<pc, locals>>
           ELSE /\ locals' = [locals EXCEPT !.old_id_int = <<old_id.v>>,
                                            !.radius = <<parse_radius(radius_value)>>]
                /\ pc' = 476
                /\ UNCHANGED search_label
        /\ UNCHANGED <<extra_taz_input, centroid_source, ring_tables, label_tables, overlay,
                       selections, attribute_tables, ranges, radius, total_bounds>>

\* Lines 476-485: the anchor subset, the status label and the centroid.
resolve ==
    LET subset == SelectSeq(gdf_old_taz, LAMBDA row : IdIs(row, locals.old_id_int[1]))
        centroid == UnionCentroid(subset)
    IN  /\ pc = 476
        /\ IF subset = <<>>
           THEN /\ search_label' = LabelNotFound
                /\ pc' = Idle
                /\ locals' = Unbound
                /\ UNCHANGED centroid_source
           ELSE /\ search_label' = IntStr(locals.old_id_int[1])
                /\ centroid_source' = [cx |-> <<centroid.x>>, cy |-> <<centroid.y>>]
                /\ locals' = [locals EXCEPT !.subset_old = <<subset>>]
                /\ pc' = 487
        /\ UNCHANGED <<inputs, ring_tables, label_tables, overlay, selections, attribute_tables,
                       ranges, radius, total_bounds>>

\* Lines 487-493: the buffer and its ring; the run ends at line 487 when
\* buffer() raises.
build_buffer ==
    /\ pc = 487
    /\ radius' = locals.radius
    /\ \E b \in BufferOutcomes(UnionCentroid(locals.subset_old[1]), locals.radius[1]) :
          IF b.kind = "raise"
          THEN /\ pc' = Idle
               /\ locals' = Unbound
               /\ UNCHANGED old_taz_buffer_source
          ELSE /\ old_taz_buffer_source' = [xs |-> <<[axis |-> "x", ring |-> b]>>,
                                            ys |-> <<[axis |-> "y", ring |-> b]>>,
                                            id |-> <<IntStr(locals.old_id_int[1])>>]
               /\ locals' = [locals EXCEPT !.buffer_geom = <<b>>]
               /\ pc' = 495
    /\ UNCHANGED <<inputs, search_label, centroid_source, old_taz_neighbors_source, old_taz_source,
                   old_taz_blocks_source, new_taz_source, new_taz_blocks_source, blocks_source,
                   combined_old_source, combined_new_source, combined_blocks_source,
                   label_tables, overlay, selections, attribute_tables, ranges, total_bounds>>

\* Line 495: the old zones that intersect the buffer.
filter_neighbors ==
    /\ pc = 495
    /\ locals' = [locals EXCEPT !.neighbors =
                     <<SelectSeq(gdf_old_taz,
                                 LAMBDA row : Intersects(row.geometry, locals.buffer_geom[1]))>>]
    /\ pc' = 496
    /\ UNCHANGED <<inputs, search_label, centroid_source, ring_tables, label_tables, overlay,
                   selections, attribute_tables, ranges, radius, total_bounds>>

\* Lines 496-497: the rings of the neighbours go to their ring table.
publish_neighbors ==
    /\ pc = 496
    /\ old_taz_neighbors_source' = split_multipolygons_to_cds(locals.neighbors[1], "taz_id", <<>>)
    /\ pc' = 499
    /\ UNCHANGED <<inputs, search_label, centroid_source, old_taz_buffer_source, old_taz_source,
                   old_taz_blocks_source, new_taz_source, new_taz_blocks_source, blocks_source,
                   combined_old_source, combined_new_source, combined_blocks_source,
                   label_tables, overlay, selections, attribute_tables, ranges, radius,
                   total_bounds, locals>>

\* Lines 499-500: the new zones and the blocks that intersect the buffer.
filter_new_and_blocks ==
    /\ pc = 499
    /\ locals' = [locals EXCEPT
                     !.new_sub = <<SelectSeq(gdf_new_taz,
                                             LAMBDA row : Intersects(row.geometry, locals.buffer_geom[1]))>>,
                     !.blocks_sub = <<SelectSeq(gdf_blocks,
                                                LAMBDA row : Intersects(row.geometry, locals.buffer_geom[1]))>>]
    /\ pc' = 502
    /\ UNCHANGED <<inputs, search_label, centroid_source, ring_tables, label_tables, overlay,
                   selections, attribute_tables, ranges, radius, total_bounds>>

\* Lines 502-528: the decompositions and their assignment to the ring
\* tables and the label tables.
decompose ==
    LET old_temp == split_multipolygons_to_cds(locals.subset_old[1], "taz_id", <<>>)
        new_temp == add_formatted_fields(
                        split_multipolygons_to_cds(locals.new_sub[1], "taz_id", NumericCols),
                        <<"HH19", "EMP19", "HH49", "EMP49">>)
        blocks_temp == add_formatted_fields(
                           split_multipolygons_to_cds(locals.blocks_sub[1], "BLOCK_ID", NumericCols),
                           <<"HH19", "EMP19", "HH49", "EMP49">>)
        comb_blocks_temp == split_multipolygons_to_cds(locals.blocks_sub[1], "BLOCK_ID", <<>>)
    IN  /\ pc = 502
        /\ old_taz_source' = old_temp
        /\ new_taz_source' = new_temp
        /\ blocks_source' = blocks_temp
        /\ old_taz_blocks_source' = comb_blocks_temp
        /\ new_taz_blocks_source' = comb_blocks_temp
        /\ combined_old_source' = old_temp
        /\ combined_new_source' = new_temp
        /\ combined_blocks_source' = comb_blocks_temp
        /\ old_taz_text_source' = split_multipolygons_to_text(locals.subset_old[1], "taz_id")
        /\ new_taz_text_source' = split_multipolygons_to_text(locals.new_sub[1], "taz_id")
        /\ pc' = 530
        /\ UNCHANGED <<inputs, search_label, centroid_source, old_taz_buffer_source,
                       old_taz_neighbors_source, overlay, selections, attribute_tables, ranges,
                       radius, total_bounds, locals>>

\* Lines 530-531 leaving the selections as they are.
clear_selections_skipped ==
    /\ pc = 530
    /\ pc' = 532
    /\ UNCHANGED <<inputs, search_label, centroid_source, ring_tables, label_tables, overlay,
                   selections, attribute_tables, ranges, radius, total_bounds, locals>>

\* Lines 530-531: both selections are emptied; for a selection that was
\* not empty the callback of line 391 or 392 runs on the empty selection.
clear_selections ==
    /\ pc = 530
    /\ new_taz_selected' = <<>>
    /\ blocks_selected' = <<>>
    /\ new_taz_table_source' = IF new_taz_selected # <<>>
                               THEN update_new_taz_table(new_taz_source, <<>>)
                               ELSE new_taz_table_source
    /\ blocks_table_source' = IF blocks_selected # <<>>
                              THEN update_blocks_table(blocks_source, <<>>)
                              ELSE blocks_table_source
    /\ pc' = 532
    /\ UNCHANGED <<inputs, search_label, centroid_source, ring_tables, label_tables, overlay,
                   ranges, radius, total_bounds, locals>>

\* Lines 532-535: both attribute tables are emptied and filled again.
aggregate ==
    /\ pc = 532
    /\ new_taz_table_source' = update_new_taz_table(new_taz_source, new_taz_selected)
    /\ blocks_table_source' = update_blocks_table(blocks_source, blocks_selected)
    /\ pc' = 537
    /\ UNCHANGED <<inputs, search_label, centroid_source, ring_tables, label_tables, overlay,
                   selections, ranges, radius, total_bounds, locals>>

\* Lines 537-554: the viewports; the run returns.
fit_and_return ==
    /\ pc = 537
    /\ total_bounds' = TotalBounds(locals.subset_old[1])
    /\ ranges' = calibrate_plots([p \in Plots |-> fit(TotalBounds(locals.subset_old[1]))])
    /\ pc' = Idle
    /\ locals' = Unbound
    /\ UNCHANGED <<inputs, search_label, centroid_source, ring_tables, label_tables, overlay,
                   selections, attribute_tables, radius>>

StepNext ==
    \/ \E value \in IdInputs, radius_value \in RadiusInputs : validate(value, radius_value)
    \/ resolve
    \/ build_buffer
    \/ filter_neighbors
    \/ publish_neighbors
    \/ filter_new_and_blocks
    \/ decompose
    \/ clear_selections
    \/ aggregate
    \/ fit_and_return
    \/ pc = Idle /\ \E inds \in Selections(Len(new_taz_source["id"])) : SelectNewTaz(inds)
    \/ pc = Idle /\ \E inds \in Selections(Len(blocks_source["id"])) : SelectBlocks(inds)

StepSpec == Init /\ [][StepNext]_vars

-----------------------------------------------------------------------------
(* The decomposer over collections of records *)

MaxRecords == 3

\* Records with a polygon, with two and three parts, with an empty
\* geometry and without a geometry; the third lacks the columns of 2049.
Records ==
    { Row(Polygon(Box(0, 0, 10, 10)),
          Fields("taz_id", Num(1), NewCols, Ints(<<1, 2, 3, 4, 5, 6, 7>>))),
      Row(MultiPolygon(<<Box(20, 0, 30, 10), Box(40, 0, 50, 20)>>),
          Fields("taz_id", Num(2), NewCols, <<NaN>> \o Ints(<<8, 9, 10, 11, 12, 13>>))),
      Row(MultiPolygon(<<Box(60, 0, 70, 10), Box(80, 0, 90, 10), Box(60, 20, 70, 30)>>),
          Fields("taz_id", Num(3), <<"HH19", "PERSNS19">>, Ints(<<14, 15>>))),
      Row(EmptyPolygon, Fields("taz_id", Num(4), NewCols, Ints(<<1, 1, 1, 1, 1, 1, 1>>))),
      Row(NoGeometry, Fields("taz_id", Num(5), NewCols, Ints(<<2, 2, 2, 2, 2, 2, 2>>))) }

Collections == UNION {[1..n -> Records] : n \in 0..MaxRecords}

\* Lines 459-500 of a run whose anchor subset and new zones are the
\* collection gdf.
filtered(gdf) ==
    /\ pc = Idle
    /\ locals' = [locals EXCEPT !.subset_old = <<gdf>>, !.new_sub = <<gdf>>, !.blocks_sub = <<<<>>>>]
    /\ pc' = 502
    /\ UNCHANGED <<inputs, search_label, centroid_source, ring_tables, label_tables, overlay,
                   selections, attribute_tables, ranges, radius, total_bounds>>

DecomposeNext ==
    \/ \E gdf \in Collections : filtered(gdf)
    \/ decompose

DecomposeSpec == Init /\ [][DecomposeNext]_vars

-----------------------------------------------------------------------------
(* The conditions under which the handlers return early *)

\* run_search() returns at line 462, 467 or 479 for text_input.value =
\* value: nothing left after strip(), no int, or no old zone of that id.
RejectedId(value) ==
    LET val == Strip(value)
        old_id == ParseInt(val)
    IN  \/ val = <<>>
        \/ ~old_id.ok
        \/ \A i \in 1..Len(gdf_old_taz) : ~IdIs(gdf_old_taz[i], old_id.v)

\* run_extra_search() returns at line 591, 597 or 602 for
\* extra_taz_input.value = value: nothing left after strip(), a non-empty
\* piece that is no int, or no old zone among the ids.
ExtraError(value) ==
    LET val == Strip(value)
        pieces == SelectSeq(SplitComma(val, <<>>), LAMBDA x : Strip(x) # <<>>)
        old_id(i) == ParseInt(Strip(pieces[i]))
    IN  \/ val = <<>>
        \/ \E i \in 1..Len(pieces) : ~old_id(i).ok
        \/ \A i \in 1..Len(pieces), j \in 1..Len(gdf_old_taz) : ~IdIs(gdf_old_taz[j], old_id(i).v)

-----------------------------------------------------------------------------
(* Properties *)

C3_RadiusPositiveFinite ==
    radius # <<>> => radius[1].k = "fin" /\ radius[1].m > 0

(* C4: each attribute table always holds one row more than its selection  *)
(* has indices, and its last row has the id "Sum".                         *)
C4_TablesEndWithSumRow ==
    /\ Len(new_taz_table_source["id"]) = Len(new_taz_selected) + 1
    /\ new_taz_table_source["id"][Len(new_taz_selected) + 1] = SumId
    /\ Len(blocks_table_source["id"]) = Len(blocks_selected) + 1
    /\ blocks_table_source["id"][Len(blocks_selected) + 1] = SumId

(* C5: in the last row of an attribute table every numeric column holds   *)
(* the arithmetic sum of the rows above it, where a null and a value that *)
(* is no number count as 0.                                                *)
C5_SumRowIsArithmeticSum ==
    \A t \in {new_taz_table_source, blocks_table_source} :
        \A c \in ColSet(NumericCols) :
            LET n == Len(t[c])
                total[k \in 0..n] ==
                    IF k = 0 THEN 0
                    ELSE total[k - 1] + (IF t[c][k].k = "int" THEN t[c][k].v ELSE 0)
            IN  n > 0 => t[c][n] = Num(total[n - 1])

(* C6: each attribute table always holds the rows of its ring table at    *)
(* the selected indices, in the order of the selection, followed by the   *)
(* Sum row.                                                                *)
C6_TableFollowsSelection ==
    /\ Len(new_taz_table_source["id"]) = Len(new_taz_selected) + 1
    /\ new_taz_table_source["id"][Len(new_taz_selected) + 1] = SumId
    /\ \A k \in 1..Len(new_taz_selected), c \in TableCols :
           new_taz_table_source[c][k] = new_taz_source[c][new_taz_selected[k] + 1]
    /\ Len(blocks_table_source["id"]) = Len(blocks_selected) + 1
    /\ blocks_table_source["id"][Len(blocks_selected) + 1] = SumId
    /\ \A k \in 1..Len(blocks_selected), c \in TableCols :
           blocks_table_source[c][k] = blocks_source[c][blocks_selected[k] + 1]

(* C7: a run of run_search that reaches its end leaves both selections    *)
(* empty and each attribute table with the Sum row alone, whose numeric   *)
(* columns are all 0.                                                      *)
C7_FinishedQueryClearsSelections ==
    [][\A radius_value \in RadiusInputs :
          LET in == <<text_input', radius_value>>
              l == SearchLocals[in]
          IN  l.subset_old # <<>> =>
                  \A buffer_geom \in DOMAIN SearchWrites[in] :
                      (buffer_geom.kind # "raise" /\ search_done(l, SearchWrites[in][buffer_geom])) =>
                          /\ new_taz_selected' = <<>>
                          /\ blocks_selected' = <<>>
                          /\ \A t \in {new_taz_table_source', blocks_table_source'} :
                                 /\ t["id"] = <<SumId>>
                                 /\ \A c \in ColSet(NumericCols) : t[c] = <<Num(0)>>]_vars

\* The query for zone 42 has run to its end: new zones and blocks are on
\* display, nothing is selected and the tables hold the Sum row of zeros.
C7_Witness ==
    /\ text_input = <<"4", "2">>
    /\ search_label = <<"4", "2">>
    /\ Len(new_taz_source["id"]) > 1
    /\ blocks_source["id"] # <<>>
    /\ new_taz_selected = <<>>
    /\ blocks_selected = <<>>
    /\ new_taz_table_source["id"] = <<SumId>>
    /\ new_taz_table_source["HH19"] = <<Num(0)>>
    /\ blocks_table_source["id"] = <<SumId>>
    /\ \A p \in Plots : ranges[p] = fit(total_bounds)

(* C8: the viewport a query fits to the bounds (minx, miny, maxx, maxy)   *)
(* of its anchor extends them by 5% of the width on each side in x        *)
(* and by 5% of the height on each side in y; when the width or the       *)
(* height is zero it extends them by 1000 on each side in both axes       *)
(* instead.  Its x start is less than its x end and its y start less than *)
(* its y end, and the bounds (0, 0, 100, 200) give (-5, -10, 105, 210).   *)
C8_FitPadsBoundsOrWidens ==
    total_bounds # <<>> =>
        \A p \in Plots :
            LET v == ranges[p]
                minx == total_bounds[1]
                miny == total_bounds[2]
                maxx == total_bounds[3]
                maxy == total_bounds[4]
                w == maxx - minx
                h == maxy - miny
                Is(q, n, d) == q.d > 0 /\ q.n * d = n * q.d
                Less(a, b) == a.d > 0 /\ b.d > 0 /\ a.n * b.d < b.n * a.d
            IN  /\ (w # 0 /\ h # 0) =>
                       /\ Is(v.x_start, 100 * minx - 5 * w, 100)
                       /\ Is(v.x_end, 100 * maxx + 5 * w, 100)
                       /\ Is(v.y_start, 100 * miny - 5 * h, 100)
                       /\ Is(v.y_end, 100 * maxy + 5 * h, 100)
                /\ (w = 0 \/ h = 0) =>
                       /\ Is(v.x_start, minx - 1000, 1)
                       /\ Is(v.x_end, maxx + 1000, 1)
                       /\ Is(v.y_start, miny - 1000, 1)
                       /\ Is(v.y_end, maxy + 1000, 1)
                /\ Less(v.x_start, v.x_end)
                /\ Less(v.y_start, v.y_end)
                /\ total_bounds = <<0, 0, 100, 200>> =>
                       /\ Is(v.x_start, -5, 1)
                       /\ Is(v.y_start, -10, 1)
                       /\ Is(v.x_end, 105, 1)
                       /\ Is(v.y_end, 210, 1)

\* Bounds of width zero and height 200: the viewport is 2000 wide.
C8_Witness ==
    /\ total_bounds = <<100, 0, 100, 200>>
    /\ ranges["p_old"].x_start = Whole(-900)
    /\ ranges["p_old"].x_end = Whole(1100)
    /\ ranges["p_old"].y_start = Whole(-1000)
    /\ ranges["p_old"].y_end = Whole(1200)

(* C9: Match 1st Panel Zoom leaves the first panel's viewport as it was   *)
(* and gives the same viewport to the other three; a second click right   *)
(* after changes nothing; and a pan or zoom of one panel, before or after *)
(* a click, changes the viewport of that panel alone.                      *)
C9_MatchZoomCopiesFirstPanelOnce ==
    [][/\ on_match_zoom_click =>
              /\ \A p \in Plots : ranges'[p] = ranges["p_old"]
              /\ match_zoom(ranges') = ranges'
       /\ \A p \in PanPlots, view \in PanViews :
              PanZoom(p, view) =>
                  /\ ranges'[p] = view
                  /\ \A q \in Plots \ {p} : ranges'[q] = ranges[q]]_vars

\* After a query the first panel was panned and the click has copied its
\* viewport to the other three.
C9_Witness ==
    /\ total_bounds # <<>>
    /\ ranges["p_old"] \in PanViews
    /\ \A p \in Plots : ranges[p] = ranges["p_old"]

(* C10: a run of run_extra_search changes the overlay ring table and the  *)
(* overlay label table at most: the status label, the centroid, the       *)
(* buffer, every ring table, both label tables, both selections, both     *)
(* attribute tables and the four viewports stay as they were.              *)
C10_ExtraSearchChangesOverlayOnly ==
    [][\A value \in ExtraInputs :
          run_extra_search(value) =>
              UNCHANGED <<text_input, search_label, centroid_source, ring_tables, label_tables,
                          selections, attribute_tables, ranges, query_locals>>]_vars

\* The overlay shows zones 42 and 7 over the result of a query, with a
\* block selected and the viewports as the query fitted them.
C10_Witness ==
    /\ extra_taz_input = <<"4", "2", ",", " ", "7">>
    /\ Len(extra_old_taz_source["id"]) = 3
    /\ Len(extra_old_taz_text_source["id"]) = 3
    /\ old_taz_source["id"] # <<>>
    /\ blocks_selected # <<>>
    /\ \A p \in Plots : ranges[p] = fit(total_bounds)

(* C11 as stated: a run of run_extra_search whose list is empty or has an *)
(* element between its commas that is no integer, a blank element         *)
(* included, leaves the overlay ring table and the overlay label table    *)
(* empty.                                                                  *)
C11_AnyNonIntegerElementClearsOverlay ==
    [][LET val == Strip(extra_taz_input')
           elements == SplitComma(val, <<>>)
       IN  (run_extra_search(extra_taz_input')
               /\ (val = <<>> \/ \E i \in 1..Len(elements) : ~ParseInt(Strip(elements[i])).ok)) =>
                  /\ extra_old_taz_source' = EmptySource(RingCols)
                  /\ extra_old_taz_text_source' = EmptySource(TextCols)]_vars

(* C11 amended: a run of run_extra_search whose list is empty or has a    *)
(* non-blank element that is no integer (e.g. "42, 7, abc") leaves the    *)
(* overlay ring table and the overlay label table empty, never the rings  *)
(* of the ids that did parse; blank elements (as in "42,,7") are skipped  *)
(* and do not make the list invalid.                                       *)
C11_InvalidListClearsOverlay ==
    [][LET val == Strip(extra_taz_input')
           elements == SplitComma(val, <<>>)
           blank(i) == Strip(elements[i]) = <<>>
           integer(i) == ParseInt(Strip(elements[i])).ok
       IN  /\ (run_extra_search(extra_taz_input')
                  /\ (val = <<>> \/ \E i \in 1..Len(elements) : ~blank(i) /\ ~integer(i))) =>
                     /\ extra_old_taz_source' = EmptySource(RingCols)
                     /\ extra_old_taz_text_source' = EmptySource(TextCols)
           /\ (run_extra_search(extra_taz_input')
                  /\ extra_taz_input' = <<"4", "2", ",", ",", "7">>) =>
                     extra_old_taz_source'["id"] = <<<<"4", "2">>, <<"7">>, <<"7">>>>]_vars

\* The list "42, 7, abc" has left the overlay empty after the query for
\* zone 42 had run to its end.
C11_Witness ==
    /\ extra_taz_input = <<"4", "2", ",", " ", "7", ",", " ", "a", "b", "c">>
    /\ extra_old_taz_source["id"] = <<>>
    /\ extra_old_taz_text_source["id"] = <<>>
    /\ search_label = <<"4", "2">>
    /\ old_taz_neighbors_source["id"] # <<>>

\* The phases of a query run, in their order.
Phases == <<"Validating", "Resolving", "Filtering", "Decomposing", "Aggregating", "Fitting">>

\* The phase the statement at a line of run_search belongs to: parsing the
\* inputs; resolving the anchor and its centroid; building the buffer and
\* filtering the three datasets; decomposing and assigning the ring and
\* label tables; clearing the selections and filling the attribute
\* tables; fitting the viewports.
Phase(line) ==
    IF line < 476 THEN "Validating"
    ELSE IF line < 487 THEN "Resolving"
    ELSE IF line <= 495 \/ line \in 499..500 THEN "Filtering"
    ELSE IF line < 530 THEN "Decomposing"
    ELSE IF line < 537 THEN "Aggregating"
    ELSE "Fitting"

PhaseRank(phase) == CHOOSE i \in 1..Len(Phases) : Phases[i] = phase

(* C12: within a run of run_search the statements run in the order of the *)
(* phases Validating, Resolving, Filtering, Decomposing, Aggregating,     *)
(* Fitting: a statement is never followed by a statement of an earlier    *)
(* phase, and after the Fitting statements the run is over.               *)
C12_PhasesInOrder ==
    [][/\ (pc # Idle /\ pc' # Idle) => PhaseRank(Phase(pc)) <= PhaseRank(Phase(pc'))
       /\ (pc # Idle /\ Phase(pc) = "Fitting") => pc' = Idle]_vars

(* C13: a run of run_search that reaches its end leaves the four          *)
(* viewports equal to each other and to the fit of the bounding box of    *)
(* the anchor's rings, the rings its anchor ring table then holds: the    *)
(* box extended by 5% of its width and of its height on each side (by     *)
(* 1000 when a span is zero), whatever the buffer and the neighbours are  *)
(* and whatever pan, zoom or match preceded.                               *)
C13_FinishedQueryFitsAnchor ==
    [][\A radius_value \in RadiusInputs :
          LET in == <<text_input', radius_value>>
              l == SearchLocals[in]
              xs == old_taz_source'["xs"]
              ys == old_taz_source'["ys"]
              X == UNION {{xs[i][j] : j \in 1..Len(xs[i])} : i \in 1..Len(xs)}
              Y == UNION {{ys[i][j] : j \in 1..Len(ys[i])} : i \in 1..Len(ys)}
              Is(q, n, d) == q.d > 0 /\ q.n * d = n * q.d
          IN  l.subset_old # <<>> =>
                  \A b \in DOMAIN SearchWrites[in] :
                      (b.kind # "raise" /\ search_done(l, SearchWrites[in][b])) =>
                          \E minx \in {x \in X : \A z \in X : x <= z},
                             maxx \in {x \in X : \A z \in X : x >= z},
                             miny \in {y \in Y : \A z \in Y : y <= z},
                             maxy \in {y \in Y : \A z \in Y : y >= z} :
                                 \A p \in Plots :
                                     IF maxx # minx /\ maxy # miny
                                     THEN /\ Is(ranges'[p].x_start, 20 * minx - (maxx - minx), 20)
                                          /\ Is(ranges'[p].x_end, 20 * maxx + (maxx - minx), 20)
                                          /\ Is(ranges'[p].y_start, 20 * miny - (maxy - miny), 20)
                                          /\ Is(ranges'[p].y_end, 20 * maxy + (maxy - miny), 20)
                                     ELSE /\ Is(ranges'[p].x_start, minx - 1000, 1)
                                          /\ Is(ranges'[p].x_end, maxx + 1000, 1)
                                          /\ Is(ranges'[p].y_start, miny - 1000, 1)
                                          /\ Is(ranges'[p].y_end, maxy + 1000, 1)]_vars

\* The query for zone 42 at radius 1000 has run to its end: zone 43 is
\* among the neighbours, and the four viewports are the fit of the box
\* (0, 0) - (100, 200) of zone 42.
C13_Witness ==
    /\ search_label = <<"4", "2">>
    /\ radius = <<Fin(1000, 0)>>
    /\ old_taz_source["id"] = <<<<"4", "2">>>>
    /\ \E i \in 1..Len(old_taz_neighbors_source["id"]) :
           old_taz_neighbors_source["id"][i] = <<"4", "3">>
    /\ \A p \in Plots :
           ranges[p] = [x_start |-> Whole(-5), x_end |-> Whole(105),
                        y_start |-> Whole(-10), y_end |-> Whole(210)]

(* C14: after a run of run_search with a positive radius has reached its  *)
(* end, every ring of the anchor ring table is also in the old-zone       *)
(* neighbour ring table, with the same id.                                 *)
C14_NeighboursIncludeAnchor ==
    (radius # <<>> /\ radius[1].k = "fin" /\ radius[1].m > 0) =>
        \A i \in 1..Len(old_taz_source["id"]) :
            \E j \in 1..Len(old_taz_neighbors_source["id"]) :
                /\ old_taz_neighbors_source["id"][j] = old_taz_source["id"][i]
                /\ old_taz_neighbors_source["xs"][j] = old_taz_source["xs"][i]
                /\ old_taz_neighbors_source["ys"][j] = old_taz_source["ys"][i]

(* C15: when the decomposers have run on a collection, the ring table     *)
(* has one ring per constituent polygon of every record whose geometry is *)
(* neither missing nor empty (none for the other records), in record      *)
(* order and then constituent order; every ring has the exterior of its   *)
(* constituent, the id of its record as a string and the record's values  *)
(* of the attribute columns (None for a column the record lacks); the     *)
(* label table has the same length and the same id at every position.     *)
C15_DecomposerOneRingPerPart ==
    pc = 530 =>
        LET gdf == locals.new_sub[1]
            K(i) == IF gdf[i].geometry.geom_type = "None" \/ gdf[i].geometry.is_empty
                    THEN 0 ELSE Len(gdf[i].geometry.geoms)
            Before[i \in 0..Len(gdf)] == IF i = 0 THEN 0 ELSE Before[i - 1] + K(i)
            total == Before[Len(gdf)]
        IN  /\ locals.subset_old[1] = gdf
            /\ \A c \in DOMAIN new_taz_source : Len(new_taz_source[c]) = total
            /\ \A c \in DOMAIN old_taz_source : Len(old_taz_source[c]) = total
            /\ ColSet(NumericCols) \subseteq DOMAIN new_taz_source
            /\ \A i \in 1..Len(gdf) : \A j \in 1..K(i) :
                  LET at == Before[i - 1] + j
                      part == gdf[i].geometry.geoms[j]
                  IN  /\ new_taz_source["id"][at] = PyStr(gdf[i].fields["taz_id"])
                      /\ new_taz_source["xs"][at] = <<part.x1, part.x2, part.x2, part.x1, part.x1>>
                      /\ new_taz_source["ys"][at] = <<part.y1, part.y1, part.y2, part.y2, part.y1>>
                      /\ \A c \in ColSet(NumericCols) :
                            new_taz_source[c][at] = IF c \in DOMAIN gdf[i].fields
                                                    THEN gdf[i].fields[c] ELSE None
                      /\ old_taz_source["id"][at] = new_taz_source["id"][at]
                      /\ old_taz_source["xs"][at] = new_taz_source["xs"][at]
                      /\ old_taz_source["ys"][at] = new_taz_source["ys"][at]
            /\ Len(new_taz_text_source["id"]) = total
            /\ Len(old_taz_text_source["id"]) = total
            /\ \A at \in 1..total :
                  /\ new_taz_text_source["id"][at] = new_taz_source["id"][at]
                  /\ old_taz_text_source["id"][at] = old_taz_source["id"][at]

\* A collection of a skipped record, a record of three constituents and a
\* record of two has been decomposed into five rings.
C15_Witness ==
    /\ pc = 530
    /\ Len(locals.new_sub[1]) = 3
    /\ locals.new_sub[1][1].geometry.is_empty
    /\ Len(locals.new_sub[1][2].geometry.geoms) = 3
    /\ Len(locals.new_sub[1][3].geometry.geoms) = 2
    /\ new_taz_source["id"] = <<<<"3">>, <<"3">>, <<"3">>, <<"2">>, <<"2">>>>
    /\ new_taz_text_source["id"] = new_taz_source["id"]
    /\ new_taz_source["EMP19"][1] = None

(* C16: in every step in which update_new_taz_table() or                  *)
(* update_blocks_table() runs (the callbacks of lines 391-392 after a     *)
(* selection has changed, among them the ones line 530 and line 531 fire, *)
(* and the calls of lines 534-535), every index of either selection is a  *)
(* row index of the ring table the function reads, also when the run has  *)
(* just replaced that table by a shorter one under a selection made on    *)
(* the previous result.                                                    *)
C16_AggregatorReadsValidRows ==
    [][(\/ pc = 530
        \/ pc = 532
        \/ new_taz_selected' # new_taz_selected
        \/ blocks_selected' # blocks_selected)
       => /\ \A k \in 1..Len(new_taz_selected') :
                new_taz_selected'[k] \in 0..(Len(new_taz_source'["id"]) - 1)
          /\ \A k \in 1..Len(blocks_selected') :
                blocks_selected'[k] \in 0..(Len(blocks_source'["id"]) - 1)]_vars

\* A run has replaced the ring table of the new zones by a shorter one
\* and is about to clear a selection that holds an index past its end;
\* the attribute table still shows the selected row of the previous
\* result.
C16_Witness ==
    /\ pc = 530
    /\ \E k \in 1..Len(new_taz_selected) : new_taz_selected[k] >= Len(new_taz_source["id"])
    /\ Len(new_taz_table_source["id"]) = Len(new_taz_selected) + 1

====
